---- MODULE Spec2Model ----
(***************************************************************************)
(* Model of the windoze side panel (src/background.js, and the older copy  *)
(* of the same script in src/unnamed/part_001): the state store            *)
(* (windowTitles, collapsedState, chrome.storage.local), the tree renderer *)
(* renderList, the activation updater updateActiveStates and the host      *)
(* event listeners.                                                        *)
(*                                                                         *)
(* Strings that the code inspects (window titles) are sequences of         *)
(* one-character strings; a DOM subtree is a record; a chrome.* call is a  *)
(* request whose answer is delivered in a later step.                      *)
(***************************************************************************)
EXTENDS Integers, Sequences, FiniteSets, TLC

VARIABLES
    impl,            \* which copy of the panel script is loaded
    host,            \* the browser: windows (with tabs) and tab groups
    storage,         \* chrome.storage.local
    windowTitles,    \* let windowTitles   (background.js:40)
    collapsedState,  \* let collapsedState (background.js:41)
    container,       \* children of #sidebar-content: a sequence of window lists
    renders,         \* renderList invocations suspended at an await
    updates,         \* updateActiveStates invocations awaiting getLastFocused
    saves,           \* saveWindowTitle invocations awaiting storage.set
    timers,          \* pending setTimeout(() => renderList(x)) callbacks
    events,          \* host events emitted and not yet dispatched
    toggled,         \* history: flag last saved per section key by an arrow click
    hostCalls,       \* chrome.windows.update and chrome.tabs.update calls not yet answered
    lastSaved,       \* history: the last saveWindowTitle call, what it stored, and the title last saved per window
    budget           \* how many host changes and user inputs the behaviour may still take

vars == <<impl, host, storage, windowTitles, collapsedState, container,
          renders, updates, saves, timers, events, hostCalls, toggled, lastSaved,
          budget>>

----------------------------------------------------------------------------
(* Bounds *)

MaxInFlight == 2    \* renderList and updateActiveStates invocations in flight at once
MaxInputs == 2      \* host changes and user inputs in one behaviour
MaxTabs == 3        \* tabs of the drawn window in TreeSpec
MaxStoreInputs == 3 \* host changes and user inputs in one behaviour of StoreSpec

----------------------------------------------------------------------------
(* Strings *)

Space == " "
DigitChars == <<"0", "1", "2", "3", "4", "5", "6", "7", "8", "9">>

IsDigit(c) == \E i \in 1..10 : DigitChars[i] = c
DigitVal(c) == (CHOOSE i \in 1..10 : DigitChars[i] = c) - 1

\* String(n) for a non-negative integer: its decimal digits.
RECURSIVE ToStr(_)
ToStr(n) == IF n < 10 THEN <<DigitChars[n + 1]>>
            ELSE ToStr(n \div 10) \o <<DigitChars[(n % 10) + 1]>>

\* String.prototype.trim: strips the white space at both ends.
RECURSIVE TrimLeft(_)
TrimLeft(s) == IF s # <<>> /\ Head(s) = Space THEN TrimLeft(Tail(s)) ELSE s
RECURSIVE TrimRight(_)
TrimRight(s) == IF s # <<>> /\ s[Len(s)] = Space
                THEN TrimRight(SubSeq(s, 1, Len(s) - 1)) ELSE s
Trim(s) == TrimRight(TrimLeft(s))

\* JavaScript truthiness of a string: only '' is falsy.
Truthy(s) == s # <<>>

\* `Window ${id}`
DefaultTitle(id) == <<"W", "i", "n", "d", "o", "w", " ">> \o ToStr(id)

\* Primary collation weight of a character: case folded (sensitivity 'base'),
\* white space before digits before letters.
Letters == <<"a", "b", "d", "i", "n", "o", "w">>
Fold(c) == CASE c = "A" -> "a" [] c = "B" -> "b" [] c = "D" -> "d"
             [] c = "I" -> "i" [] c = "N" -> "n" [] c = "O" -> "o"
             [] c = "W" -> "w" [] OTHER -> c
Weight(c) == IF c = Space THEN 0
             ELSE IF IsDigit(c) THEN 1
             ELSE 1 + (CHOOSE i \in 1..Len(Letters) : Letters[i] = Fold(c))

\* Length of the run of digits that starts s.
RECURSIVE DigitRun(_)
DigitRun(s) == IF s # <<>> /\ IsDigit(Head(s)) THEN 1 + DigitRun(Tail(s)) ELSE 0
RECURSIVE NumVal(_, _)
NumVal(s, acc) == IF s = <<>> THEN acc
                  ELSE NumVal(Tail(s), 10 * acc + DigitVal(Head(s)))
Sign(n) == IF n < 0 THEN -1 ELSE IF n > 0 THEN 1 ELSE 0

\* a.localeCompare(b, undefined, {numeric: true, sensitivity: 'base'}):
\* -1, 0 or 1. A run of digits compares by its value.
RECURSIVE LocaleCompare(_, _)
LocaleCompare(a, b) ==
    IF a = <<>> \/ b = <<>> THEN Sign(Len(a) - Len(b))
    ELSE IF IsDigit(Head(a)) /\ IsDigit(Head(b))
    THEN LET ra == DigitRun(a)
             rb == DigitRun(b)
             va == NumVal(SubSeq(a, 1, ra), 0)
             vb == NumVal(SubSeq(b, 1, rb), 0)
         IN  IF va # vb THEN Sign(va - vb)
             ELSE LocaleCompare(SubSeq(a, ra + 1, Len(a)), SubSeq(b, rb + 1, Len(b)))
    ELSE IF Weight(Head(a)) # Weight(Head(b))
    THEN Sign(Weight(Head(a)) - Weight(Head(b)))
    ELSE LocaleCompare(Tail(a), Tail(b))

----------------------------------------------------------------------------
(* Objects used as maps *)

EmptyMap == <<>>
Has(m, k) == k \in DOMAIN m
Put(m, k, v) == [x \in (DOMAIN m) \cup {k} |-> IF x = k THEN v ELSE m[x]]

\* A property key is a string: windowTitles[windowId] uses String(windowId).
TitleKey(id) == ToStr(id)
\* windowTitles[id] || `Window ${id}`
EffectiveTitle(titles, id) ==
    IF Has(titles, TitleKey(id)) /\ Truthy(titles[TitleKey(id)])
    THEN titles[TitleKey(id)] ELSE DefaultTitle(id)

\* `window-content-${id}` and `group-content-${id}`
WindowContentId(id) == <<"window-content-", id>>
GroupContentId(id) == <<"group-content-", id>>
\* collapsedState[key], as a condition: undefined and false are falsy.
IsCollapsed(cs, key) == Has(cs, key) /\ cs[key]

----------------------------------------------------------------------------
(* Host data: a tab is [id, groupId, active], a window [id, focused, tabs], *)
(* a tab group [id, windowId, title].                                       *)

\* chrome.tabGroups.TAB_GROUP_ID_NONE: the code tests tab.groupId > -1, and
\* uses 'none' for the rest.
NoGroup == -1
GroupKey(tab) == IF tab.groupId > NoGroup THEN tab.groupId ELSE NoGroup

\* groupMap = new Map(tabGroups.map(group => [group.id, group])); a later
\* entry with the same id replaces an earlier one.
GroupMapHas(groups, gid) == \E i \in 1..Len(groups) : groups[i].id = gid
GroupMapGet(groups, gid) ==
    groups[CHOOSE i \in 1..Len(groups) :
             /\ groups[i].id = gid
             /\ \A j \in (i + 1)..Len(groups) : groups[j].id # gid]

----------------------------------------------------------------------------
(* Sorting the windows *)

\* A comparator that leaves out the two focus tests.
CompareWindowsByTitleOnly(titles, a, b) ==
    LocaleCompare(EffectiveTitle(titles, a.id), EffectiveTitle(titles, b.id))
\* A comparator that leaves out the comparison of the titles.
CompareWindowsByFocusOnly(titles, a, b) ==
    IF a.focused /\ ~b.focused THEN -1
    ELSE IF ~a.focused /\ b.focused THEN 1
    ELSE 0

\* The comparator handed to windows.sort.
CompareWindows(titles, a, b) ==
    IF a.focused /\ ~b.focused THEN -1
    ELSE IF ~a.focused /\ b.focused THEN 1
    ELSE LocaleCompare(EffectiveTitle(titles, a.id), EffectiveTitle(titles, b.id))

\* Array.prototype.sort is stable: w goes after every element that does not
\* compare greater than it.
RECURSIVE InsertSorted(_, _, _)
InsertSorted(titles, sorted, w) ==
    IF sorted = <<>> THEN <<w>>
    ELSE IF CompareWindows(titles, Head(sorted), w) <= 0
         THEN <<Head(sorted)>> \o InsertSorted(titles, Tail(sorted), w)
         ELSE <<w>> \o sorted
RECURSIVE SortFrom(_, _, _)
SortFrom(titles, ws, acc) ==
    IF ws = <<>> THEN acc
    ELSE SortFrom(titles, Tail(ws), InsertSorted(titles, acc, Head(ws)))
SortWindows(titles, ws) == SortFrom(titles, ws, <<>>)

----------------------------------------------------------------------------
(* Building the tree. A tab row is [tabId, windowId, activeTab]; a block of *)
(* a window's content is a <ul>: [className, groupId, title, collapsed,     *)
(* expanded, rows], where a 'tab-list-no-group' has no header (groupId      *)
(* NoGroup) and a 'group-list' has the classes of its content div and its   *)
(* arrow; a window item is [windowId, title, collapsed, expanded,           *)
(* activeWindow, blocks].                                                   *)

TabItem(tab, windowId) ==
    [tabId |-> tab.id, windowId |-> windowId, activeTab |-> FALSE]

createTabList(tabs, windowId, className) ==
    [className |-> className, groupId |-> NoGroup, title |-> "",
     collapsed |-> FALSE, expanded |-> FALSE,
     rows |-> [i \in 1..Len(tabs) |-> TabItem(tabs[i], windowId)]]

\* The arrow made by createToggleArrow(key) starts with class 'expanded'
\* unless collapsedState[key] is truthy.
createToggleArrow(cs, key) == ~IsCollapsed(cs, key)

\* groupInfo.title || 'Untitled Group'
GroupTitle(groupInfo) ==
    IF groupInfo.title = "" THEN "Untitled Group" ELSE groupInfo.title

\* A group block that shows only the tab at which the group was met.
GroupBlockOfFirstTab(groupId, groupInfo, tabsInGroup, windowId, cs) ==
    [className |-> "group-list", groupId |-> groupId,
     title |-> GroupTitle(groupInfo),
     collapsed |-> IsCollapsed(cs, GroupContentId(groupId)),
     expanded |-> createToggleArrow(cs, GroupContentId(groupId)),
     rows |-> createTabList(<<Head(tabsInGroup)>>, windowId,
                            "tab-list-in-group").rows]

GroupBlock(groupId, groupInfo, tabsInGroup, windowId, cs) ==
    [className |-> "group-list", groupId |-> groupId,
     title |-> GroupTitle(groupInfo),
     collapsed |-> IsCollapsed(cs, GroupContentId(groupId)),
     expanded |-> createToggleArrow(cs, GroupContentId(groupId)),
     rows |-> createTabList(tabsInGroup, windowId, "tab-list-in-group").rows]

\* background.js: one pass over win.tabs with the set renderedGroups.
RECURSIVE ContentInOrder(_, _, _, _, _, _)
ContentInOrder(win, groups, cs, i, renderedGroups, acc) ==
    IF i > Len(win.tabs) THEN acc
    ELSE
      LET tab == win.tabs[i]
          groupId == GroupKey(tab)
          InGroup(t) == t.groupId = groupId
      IN
      IF groupId = NoGroup
      THEN ContentInOrder(win, groups, cs, i + 1, renderedGroups,
               Append(acc, createTabList(<<tab>>, win.id, "tab-list-no-group")))
      ELSE IF groupId \notin renderedGroups
      THEN IF ~GroupMapHas(groups, groupId)
              \/ GroupMapGet(groups, groupId).windowId # win.id
           THEN ContentInOrder(win, groups, cs, i + 1, renderedGroups \cup {groupId},
                    Append(acc, createTabList(<<tab>>, win.id, "tab-list-no-group")))
           ELSE ContentInOrder(win, groups, cs, i + 1, renderedGroups \cup {groupId},
                    Append(acc, GroupBlock(groupId, GroupMapGet(groups, groupId),
                                           SelectSeq(win.tabs, InGroup), win.id, cs)))
      ELSE ContentInOrder(win, groups, cs, i + 1, renderedGroups, acc)

\* part_001: tabsByGroup, a Map with the key 'none' and one key per group of
\* this window in tabGroups order; the groups are rendered first, then one
\* list with the tabs under 'none'. A tab whose key the Map lacks is not
\* pushed anywhere.
RECURSIVE GroupsFirst(_, _, _, _, _)
GroupsFirst(win, groups, cs, i, acc) ==
    IF i > Len(groups) THEN acc
    ELSE
      LET group == groups[i]
          InGroup(t) == GroupKey(t) = group.id
          tabs == SelectSeq(win.tabs, InGroup)
          first == \A j \in 1..(i - 1) : groups[j].id # group.id
      IN
      IF group.windowId # win.id \/ ~first \/ tabs = <<>>
         \/ GroupMapGet(groups, group.id).windowId # win.id
      THEN GroupsFirst(win, groups, cs, i + 1, acc)
      ELSE GroupsFirst(win, groups, cs, i + 1,
               Append(acc, GroupBlock(group.id, GroupMapGet(groups, group.id),
                                      tabs, win.id, cs)))

ContentByGroup(win, groups, cs) ==
    LET Ungrouped(t) == GroupKey(t) = NoGroup
        ungroupedTabs == SelectSeq(win.tabs, Ungrouped)
    IN  GroupsFirst(win, groups, cs, 1, <<>>)
        \o (IF ungroupedTabs # <<>>
            THEN <<createTabList(ungroupedTabs, win.id, "tab-list-no-group")>>
            ELSE <<>>)

WindowContent(which, win, groups, cs) ==
    IF which = "background.js"
    THEN ContentInOrder(win, groups, cs, 1, {}, <<>>)
    ELSE ContentByGroup(win, groups, cs)

\* A title text that shows a stored title as it is, empty or not.
StoredTitleText(titles, id) ==
    IF Has(titles, TitleKey(id)) THEN titles[TitleKey(id)] ELSE DefaultTitle(id)

\* windowTitleSpan.textContent
TitleText(titles, id) == EffectiveTitle(titles, id)

WindowItem(which, win, groups, titles, cs) ==
    [windowId |-> win.id,
     title |-> TitleText(titles, win.id),
     collapsed |-> IsCollapsed(cs, WindowContentId(win.id)),
     expanded |-> createToggleArrow(cs, WindowContentId(win.id)),
     activeWindow |-> FALSE,
     blocks |-> WindowContent(which, win, groups, cs)]

\* The <ul class="window-list"> that renderList builds after its awaits.
BuildWindowList(which, windows, groups, titles, cs) ==
    LET sorted == SortWindows(titles, windows)
    IN  [i \in 1..Len(sorted) |-> WindowItem(which, sorted[i], groups, titles, cs)]

----------------------------------------------------------------------------
(* Positions in the document. A window item is at <<l, w>> (list l of the   *)
(* container, item w); a block at <<l, w, b>>; a tab row at <<l, w, b, r>>. *)
(* querySelector and getElementById return the first match in document     *)
(* order, which is the least position.                                      *)

WindowPositions(c) ==
    UNION {{<<l, w>> : w \in 1..Len(c[l])} : l \in 1..Len(c)}
BlockPositions(c) ==
    UNION {{<<p[1], p[2], b>> : b \in 1..Len(c[p[1]][p[2]].blocks)} :
           p \in WindowPositions(c)}
RowPositions(c) ==
    UNION {{<<p[1], p[2], p[3], r>> : r \in 1..Len(c[p[1]][p[2]].blocks[p[3]].rows)} :
           p \in BlockPositions(c)}

RECURSIVE Before(_, _)
Before(p, q) ==
    IF p = <<>> \/ q = <<>> THEN FALSE
    ELSE Head(p) < Head(q) \/ (Head(p) = Head(q) /\ Before(Tail(p), Tail(q)))
First(ps) == CHOOSE p \in ps : \A q \in ps \ {p} : Before(p, q)

\* The arrows of the document: <<l, w, 0>> is the arrow of a window header,
\* <<l, w, b>> the arrow of group block b.
ArrowPositions(c) ==
    {<<p[1], p[2], 0>> : p \in WindowPositions(c)} \cup
    {p \in BlockPositions(c) : c[p[1]][p[2]].blocks[p[3]].className = "group-list"}
\* The key the arrow was created with, which is the id of the content div
\* built together with it.
ArrowKey(c, p) ==
    IF p[3] = 0 THEN WindowContentId(c[p[1]][p[2]].windowId)
    ELSE GroupContentId(c[p[1]][p[2]].blocks[p[3]].groupId)
\* document.getElementById(key): the first content div with that id.
ElementsById(c, key) == {p \in ArrowPositions(c) : ArrowKey(c, p) = key}
getElementById(c, key) == First(ElementsById(c, key))

RegionCollapsed(c, p) ==
    IF p[3] = 0 THEN c[p[1]][p[2]].collapsed
    ELSE c[p[1]][p[2]].blocks[p[3]].collapsed
ArrowExpanded(c, p) ==
    IF p[3] = 0 THEN c[p[1]][p[2]].expanded
    ELSE c[p[1]][p[2]].blocks[p[3]].expanded
SetCollapsed(c, p, v) ==
    IF p[3] = 0 THEN [c EXCEPT ![p[1]][p[2]].collapsed = v]
    ELSE [c EXCEPT ![p[1]][p[2]].blocks[p[3]].collapsed = v]
SetExpanded(c, p, v) ==
    IF p[3] = 0 THEN [c EXCEPT ![p[1]][p[2]].expanded = v]
    ELSE [c EXCEPT ![p[1]][p[2]].blocks[p[3]].expanded = v]

----------------------------------------------------------------------------
(* chrome.storage.local: set replaces the value under a key; get answers    *)
(* with the value as it is when the request is made, and the answer is      *)
(* delivered later.                                                         *)

StorageGet(key) ==
    [defined |-> key \in DOMAIN storage,
     value |-> IF key \in DOMAIN storage THEN storage[key] ELSE EmptyMap]
\* An answer that has been delivered and is referenced no more.
Consumed == [defined |-> FALSE, value |-> EmptyMap]
\* data.customWindowTitles || {}
OrEmpty(data) == IF data.defined THEN data.value ELSE EmptyMap

----------------------------------------------------------------------------
(* updateActiveStates, after its await *)

\* No marker is removed.
KeepActive(c) == c

ClearActive(c) ==
    [l \in 1..Len(c) |->
       [w \in 1..Len(c[l]) |->
          [c[l][w] EXCEPT
             !.activeWindow = FALSE,
             !.blocks = [b \in 1..Len(@) |->
                           [@[b] EXCEPT !.rows = [r \in 1..Len(@) |->
                                                    [@[r] EXCEPT !.activeTab = FALSE]]]]]]]

\* chrome.windows.getLastFocused({populate: true, windowTypes: ['normal']})
getLastFocused(h) == SelectSeq(h.windows, LAMBDA w : <<w.id>> = h.last)

WindowHeaders(c, id) == {p \in WindowPositions(c) : c[p[1]][p[2]].windowId = id}
TabLinks(c, id) ==
    {p \in RowPositions(c) : c[p[1]][p[2]].blocks[p[3]].rows[p[4]].tabId = id}

MarkWindow(c, id) ==
    IF WindowHeaders(c, id) = {} THEN c
    ELSE LET p == First(WindowHeaders(c, id))
         IN  [c EXCEPT ![p[1]][p[2]].activeWindow = TRUE]
MarkTab(c, id) ==
    IF TabLinks(c, id) = {} THEN c
    ELSE LET p == First(TabLinks(c, id))
         IN  [c EXCEPT ![p[1]][p[2]].blocks[p[3]].rows[p[4]].activeTab = TRUE]

\* A run that also opens the content of the window it marks.
ApplyActiveStatesRevealing(c, current) ==
    IF current = <<>> THEN ClearActive(c)
    ELSE LET currentWindow == current[1]
             activeTabs == SelectSeq(currentWindow.tabs, LAMBDA t : t.active)
             marked == MarkWindow(ClearActive(c), currentWindow.id)
             both == IF activeTabs = <<>> THEN marked
                     ELSE MarkTab(marked, activeTabs[1].id)
         IN  IF WindowHeaders(c, currentWindow.id) = {} THEN both
             ELSE LET p == First(WindowHeaders(c, currentWindow.id))
                  IN  SetCollapsed(both, <<p[1], p[2], 0>>, FALSE)

\* The container after updateActiveStates has run with the answer current
\* (a sequence: empty when there is no last-focused window).
ApplyActiveStates(c, current) ==
    IF current = <<>> THEN ClearActive(c)
    ELSE LET currentWindow == current[1]
             activeTabs == SelectSeq(currentWindow.tabs, LAMBDA t : t.active)
             marked == MarkWindow(ClearActive(c), currentWindow.id)
         IN  IF activeTabs = <<>> THEN marked
             ELSE MarkTab(marked, activeTabs[1].id)

----------------------------------------------------------------------------
(* The host *)

Tab(id, groupId, active) == [id |-> id, groupId |-> groupId, active |-> active]
Window(id, focused, tabs) == [id |-> id, focused |-> focused, tabs |-> tabs]
Group(id, windowId, title) == [id |-> id, windowId |-> windowId, title |-> title]

WindowIdsOf(h) == {h.windows[i].id : i \in 1..Len(h.windows)}
TabIdsOf(h) ==
    UNION {{h.windows[i].tabs[j].id : j \in 1..Len(h.windows[i].tabs)} :
           i \in 1..Len(h.windows)}
GroupIdsOf(h) == {h.groups[i].id : i \in 1..Len(h.groups)}

\* Identifiers the host hands out in the behaviours of Spec.
HostWindowIds == {1, 2}
HostTabIds == {11, 12, 21}
HostGroupIds == {5}

InitialHost ==
    [windows |-> <<Window(1, TRUE, <<Tab(11, 5, TRUE)>>),
                   Window(2, FALSE, <<Tab(21, NoGroup, TRUE)>>)>>,
     groups |-> <<Group(5, 1, "Work")>>,
     last |-> <<1>>]

NoChange == [active |-> FALSE, title |-> FALSE, favIconUrl |-> FALSE]
Event(type) == [type |-> type, changeInfo |-> NoChange]

----------------------------------------------------------------------------
(* Calls shared by the handlers *)

\* renderList up to its first await: the container is emptied and both loads
\* have made their storage request.
NewRender(shouldRestoreScroll) ==
    [shouldRestoreScroll |-> shouldRestoreScroll,
     loads |-> {"windowTitles", "collapsedState"},
     titlesData |-> StorageGet("customWindowTitles"),
     collapsedData |-> StorageGet("collapsedState"),
     fetches |-> {"windows", "tabGroups"},
     windows |-> <<>>,
     groups |-> <<>>,
     expect |-> toggled,
     after |-> lastSaved]

renderList(shouldRestoreScroll) ==
    /\ Len(renders) + updates < MaxInFlight
    /\ container' = <<>>
    /\ renders' = Append(renders, NewRender(shouldRestoreScroll))

\* updateActiveStates up to its await.
updateActiveStates ==
    /\ Len(renders) + updates < MaxInFlight
    /\ updates' = updates + 1

\* No call to the host awaits its answer. focus holds the
\* chrome.windows.update calls, each with the tab its callback activates
\* (none: <<>>); activate holds the tab ids of the chrome.tabs.update calls.
NoCalls == [focus |-> <<>>, activate |-> <<>>]
FocusRequest(windowId, then) == [windowId |-> windowId, then |-> then]

Remove(s, i) == SubSeq(s, 1, i - 1) \o SubSeq(s, i + 1, Len(s))

----------------------------------------------------------------------------
(* Initial state: the script has run, DOMContentLoaded has set the 100 ms   *)
(* timer of the first render, storage is that of a fresh profile.           *)

Init ==
    /\ impl = "background.js"
    /\ host = InitialHost
    /\ storage = EmptyMap
    /\ windowTitles = EmptyMap
    /\ collapsedState = EmptyMap
    /\ container = <<>>
    /\ renders = <<>>
    /\ updates = 0
    /\ saves = 0
    /\ timers = [initial |-> 1, rerender |-> 0]
    /\ events = <<>>
    /\ hostCalls = NoCalls
    /\ toggled = EmptyMap
    /\ lastSaved = <<>>
    /\ budget = MaxInputs

----------------------------------------------------------------------------
(* Timers *)

\* setTimeout(() => renderList(false), 100)
InitialRenderTimer ==
    /\ timers.initial > 0
    /\ renderList(FALSE)
    /\ timers' = [timers EXCEPT !.initial = 0]
    /\ UNCHANGED <<impl, hostCalls, host, storage, windowTitles, collapsedState, updates,
                   saves, events, toggled, lastSaved, budget>>

\* setTimeout(() => renderList(true), 50)
RerenderTimer ==
    /\ timers.rerender > 0
    /\ renderList(TRUE)
    /\ timers' = [timers EXCEPT !.rerender = @ - 1]
    /\ UNCHANGED <<impl, hostCalls, host, storage, windowTitles, collapsedState, updates,
                   saves, events, toggled, lastSaved, budget>>

----------------------------------------------------------------------------
(* renderList after its first await *)

\* The answer of storage.get('customWindowTitles') arrives.
loadWindowTitles(r) ==
    /\ "windowTitles" \in renders[r].loads
    /\ windowTitles' = OrEmpty(renders[r].titlesData)
    /\ renders' = [renders EXCEPT ![r].loads = @ \ {"windowTitles"},
                                  ![r].titlesData = Consumed]
    /\ UNCHANGED <<impl, hostCalls, host, storage, collapsedState, container, updates,
                   saves, timers, events, toggled, lastSaved, budget>>

\* The answer of storage.get('collapsedState') arrives.
loadCollapsedState(r) ==
    /\ "collapsedState" \in renders[r].loads
    /\ collapsedState' = OrEmpty(renders[r].collapsedData)
    /\ renders' = [renders EXCEPT ![r].loads = @ \ {"collapsedState"},
                                  ![r].collapsedData = Consumed]
    /\ UNCHANGED <<impl, hostCalls, host, storage, windowTitles, container, updates,
                   saves, timers, events, toggled, lastSaved, budget>>

\* Both host answers are in: the tree is built from them and from the two
\* in-memory maps, appended to the container, and updateActiveStates is
\* called.
MountTree(r, windows, groups) ==
    /\ container' = Append(container,
                           BuildWindowList(impl, windows, groups,
                                           windowTitles, collapsedState))
    /\ renders' = Remove(renders, r)
    /\ updates' = updates + 1

\* A getAll that is answered whether or not the loads have completed.
GetAllWindowsBeforeLoads(r) ==
    /\ "windows" \in renders[r].fetches
    /\ IF renders[r].fetches = {"windows"}
       THEN MountTree(r, host.windows, renders[r].groups)
       ELSE /\ renders' = [renders EXCEPT ![r].fetches = @ \ {"windows"},
                                          ![r].windows = host.windows]
            /\ UNCHANGED <<container, updates>>
    /\ UNCHANGED <<impl, hostCalls, host, storage, windowTitles, collapsedState,
                   saves, timers, events, toggled, lastSaved, budget>>

\* The answer of chrome.windows.getAll arrives.
GetAllWindows(r) ==
    /\ renders[r].loads = {}
    /\ "windows" \in renders[r].fetches
    /\ IF renders[r].fetches = {"windows"}
       THEN MountTree(r, host.windows, renders[r].groups)
       ELSE /\ renders' = [renders EXCEPT ![r].fetches = @ \ {"windows"},
                                          ![r].windows = host.windows]
            /\ UNCHANGED <<container, updates>>
    /\ UNCHANGED <<impl, hostCalls, host, storage, windowTitles, collapsedState,
                   saves, timers, events, toggled, lastSaved, budget>>

\* The answer of chrome.tabGroups.query arrives.
QueryTabGroups(r) ==
    /\ renders[r].loads = {}
    /\ "tabGroups" \in renders[r].fetches
    /\ IF renders[r].fetches = {"tabGroups"}
       THEN MountTree(r, renders[r].windows, host.groups)
       ELSE /\ renders' = [renders EXCEPT ![r].fetches = @ \ {"tabGroups"},
                                          ![r].groups = host.groups]
            /\ UNCHANGED <<container, updates>>
    /\ UNCHANGED <<impl, hostCalls, host, storage, windowTitles, collapsedState,
                   saves, timers, events, toggled, lastSaved, budget>>

\* The answer of chrome.windows.getLastFocused arrives and
\* updateActiveStates runs to its end.
UpdateActiveStatesDone ==
    /\ updates > 0
    /\ updates' = updates - 1
    /\ container' = ApplyActiveStates(container, getLastFocused(host))
    /\ UNCHANGED <<impl, hostCalls, host, storage, windowTitles, collapsedState, renders,
                   saves, timers, events, toggled, lastSaved, budget>>

----------------------------------------------------------------------------
(* User input *)

\* saveCollapsedState(key, isCollapsed): the map in memory is changed and
\* written whole; nothing follows the write.
saveCollapsedState(key, isCollapsed) ==
    /\ collapsedState' = Put(collapsedState, key, isCollapsed)
    /\ storage' = Put(storage, "collapsedState", Put(collapsedState, key, isCollapsed))

\* The click listener of the arrow at position p.
ArrowClick(c, p) ==
    LET key == ArrowKey(c, p)
        targetElement == getElementById(c, key)
        isNowCollapsed == ~RegionCollapsed(c, targetElement)
    IN  /\ container' = SetCollapsed(SetExpanded(c, p, ~isNowCollapsed),
                                     targetElement, isNowCollapsed)
        /\ saveCollapsedState(key, isNowCollapsed)
        /\ toggled' = Put(toggled, key, isNowCollapsed)

ClickArrow(p) ==
    /\ budget > 0
    /\ budget' = budget - 1
    /\ ArrowClick(container, p)
    /\ UNCHANGED <<impl, hostCalls, host, windowTitles, renders, updates, saves, timers, events,
                   lastSaved>>

\* What the user may leave in a title span.
TypedTitles == {<<" ">>, <<" ", "b", " ">>}

\* A save that takes an empty title for the removal of the entry.
saveWindowTitleUnlessEmpty(windowId, title) ==
    LET kept == IF title = <<>>
                THEN [k \in DOMAIN windowTitles \ {TitleKey(windowId)} |->
                        windowTitles[k]]
                ELSE Put(windowTitles, TitleKey(windowId), title)
    IN  /\ windowTitles' = kept
        /\ storage' = Put(storage, "customWindowTitles", kept)
        /\ saves' = saves + 1

\* saveWindowTitle(windowId, title) up to its await.
saveWindowTitle(windowId, title) ==
    /\ windowTitles' = Put(windowTitles, TitleKey(windowId), title)
    /\ storage' = Put(storage, "customWindowTitles",
                      Put(windowTitles, TitleKey(windowId), title))
    /\ saves' = saves + 1

\* The blur listener of the title span of the window item at position p
\* (Enter in the span blurs it).
BlurTitle(p, textContent) ==
    /\ budget > 0
    /\ budget' = budget - 1
    /\ saveWindowTitle(container[p[1]][p[2]].windowId, Trim(textContent))
    /\ lastSaved' = <<[windowId |-> container[p[1]][p[2]].windowId,
                       title |-> Trim(textContent),
                       stored |-> storage'["customWindowTitles"],
                       titles |-> Put(IF lastSaved = <<>> THEN EmptyMap
                                      ELSE lastSaved[1].titles,
                                      TitleKey(container[p[1]][p[2]].windowId),
                                      Trim(textContent))]>>
    /\ UNCHANGED <<impl, hostCalls, host, collapsedState, container, renders, updates,
                   timers, events, toggled>>

\* A completion of the write after which nothing is scheduled.
SaveWindowTitleDoneWithoutRerender ==
    /\ saves > 0
    /\ saves' = saves - 1
    /\ UNCHANGED <<impl, hostCalls, host, storage, windowTitles, collapsedState, container,
                   renders, updates, events, toggled, lastSaved, budget, timers>>

\* saveWindowTitle after its await: the write is done, the re-render is
\* scheduled.
SaveWindowTitleDone ==
    /\ saves > 0
    /\ saves' = saves - 1
    /\ timers' = [timers EXCEPT !.rerender = @ + 1]
    /\ UNCHANGED <<impl, hostCalls, host, storage, windowTitles, collapsedState, container,
                   renders, updates, events, toggled, lastSaved, budget>>

----------------------------------------------------------------------------
(* The host changes and emits an event *)

Emit(h, e) ==
    /\ budget > 0
    /\ budget' = budget - 1
    /\ host' = h
    /\ events' = Append(events, e)
    /\ UNCHANGED <<impl, hostCalls, storage, windowTitles, collapsedState, container,
                   renders, updates, saves, timers, toggled, lastSaved>>

\* Another window, or none (the browser loses focus), gets the focus.
HostFocusChanged ==
    \E target \in {<<>>} \cup {<<id>> : id \in WindowIdsOf(host)} :
       /\ \E i \in 1..Len(host.windows) :
             host.windows[i].focused # (<<host.windows[i].id>> = target)
       /\ Emit([host EXCEPT
                  !.windows = [i \in 1..Len(@) |->
                                 [@[i] EXCEPT !.focused = (<<host.windows[i].id>> = target)]],
                  !.last = IF target = <<>> THEN @ ELSE target],
               Event("windows.onFocusChanged"))

HostTabCreated ==
    \E id \in HostTabIds \ TabIdsOf(host) :
       Emit([host EXCEPT !.windows[1].tabs = Append(@, Tab(id, NoGroup, FALSE))],
            Event("tabs.onCreated"))

HostTabRemoved ==
    \E i \in 1..Len(host.windows) :
       \E j \in 1..Len(host.windows[i].tabs) :
          /\ host.windows[i].tabs[j].groupId = NoGroup
          /\ ~host.windows[i].tabs[j].active
          /\ Emit([host EXCEPT !.windows[i].tabs = Remove(@, j)],
                  Event("tabs.onRemoved"))

HostTabMoved ==
    \E i \in 1..Len(host.windows) :
       \E j \in 1..(Len(host.windows[i].tabs) - 1) :
          Emit([host EXCEPT !.windows[i].tabs =
                   [k \in 1..Len(@) |-> IF k = j THEN @[j + 1]
                                          ELSE IF k = j + 1 THEN @[j] ELSE @[k]]],
               Event("tabs.onMoved"))

HostWindowCreated ==
    \E id \in HostWindowIds \ WindowIdsOf(host), t \in HostTabIds \ TabIdsOf(host) :
       Emit([host EXCEPT !.windows = Append(@, Window(id, FALSE, <<Tab(t, NoGroup, TRUE)>>))],
            Event("windows.onCreated"))

\* A window without the focus, holding no group, is closed.
HostWindowRemoved ==
    \E i \in 1..Len(host.windows) :
       /\ ~host.windows[i].focused
       /\ <<host.windows[i].id>> # host.last
       /\ \A g \in 1..Len(host.groups) : host.groups[g].windowId # host.windows[i].id
       /\ Emit([host EXCEPT !.windows = Remove(@, i)], Event("windows.onRemoved"))

HostGroupCreated ==
    \E i \in 1..Len(host.windows), g \in HostGroupIds \ GroupIdsOf(host) :
       \E j \in 1..Len(host.windows[i].tabs) :
          /\ host.windows[i].tabs[j].groupId = NoGroup
          /\ Emit([host EXCEPT !.windows[i].tabs[j].groupId = g,
                               !.groups = Append(@, Group(g, host.windows[i].id, ""))],
                  Event("tabGroups.onCreated"))

\* The group is dissolved: its tabs stay, ungrouped.
HostGroupRemoved ==
    \E g \in 1..Len(host.groups) :
       Emit([host EXCEPT
               !.windows = [i \in 1..Len(@) |->
                              [@[i] EXCEPT !.tabs = [j \in 1..Len(@) |->
                                  IF @[j].groupId = host.groups[g].id
                                  THEN [@[j] EXCEPT !.groupId = NoGroup]
                                  ELSE @[j]]]],
               !.groups = Remove(@, g)],
            Event("tabGroups.onRemoved"))

HostGroupUpdated ==
    \E g \in 1..Len(host.groups) :
       Emit([host EXCEPT !.groups[g].title = IF @ = "" THEN "Work" ELSE ""],
            Event("tabGroups.onUpdated"))

\* A tab changes in a way the model does not keep (title, icon, loading
\* status, ...): changeInfo says whether it has the properties the listener
\* reads.
ChangeInfos ==
    {NoChange,
     [NoChange EXCEPT !.active = TRUE],
     [NoChange EXCEPT !.title = TRUE],
     [NoChange EXCEPT !.favIconUrl = TRUE],
     [NoChange EXCEPT !.active = TRUE, !.title = TRUE]}
HostTabUpdated ==
    \E changeInfo \in ChangeInfos :
       Emit(host, [type |-> "tabs.onUpdated", changeInfo |-> changeInfo])

----------------------------------------------------------------------------
(* The listeners: the event at the head of the queue is dispatched *)

Dispatched(type) ==
    /\ events # <<>>
    /\ Head(events).type = type
    /\ events' = Tail(events)

RenderListener(type) ==
    /\ Dispatched(type)
    /\ renderList(TRUE)
    /\ UNCHANGED <<impl, hostCalls, host, storage, windowTitles, collapsedState, updates,
                   saves, timers, toggled, lastSaved, budget>>

\* A listener of tabs.onMoved that only refreshes the markers.
TabsOnMovedRefreshingMarkers ==
    /\ Dispatched("tabs.onMoved")
    /\ updateActiveStates
    /\ UNCHANGED <<impl, hostCalls, host, storage, windowTitles, collapsedState, container,
                   renders, saves, timers, toggled, lastSaved, budget>>

TabsOnCreated == RenderListener("tabs.onCreated")
TabsOnRemoved == RenderListener("tabs.onRemoved")
TabsOnMoved == RenderListener("tabs.onMoved")
WindowsOnCreated == RenderListener("windows.onCreated")
WindowsOnRemoved == RenderListener("windows.onRemoved")
TabGroupsOnCreated == RenderListener("tabGroups.onCreated")
TabGroupsOnRemoved == RenderListener("tabGroups.onRemoved")
TabGroupsOnUpdated == RenderListener("tabGroups.onUpdated")

WindowsOnFocusChanged ==
    /\ Dispatched("windows.onFocusChanged")
    /\ updateActiveStates
    /\ UNCHANGED <<impl, hostCalls, host, storage, windowTitles, collapsedState, container,
                   renders, saves, timers, toggled, lastSaved, budget>>

\* A listener of tabs.onUpdated whose second test is an else branch.
TabsOnUpdatedEitherOr ==
    /\ Dispatched("tabs.onUpdated")
    /\ LET changeInfo == Head(events).changeInfo
       IN  IF changeInfo.active
           THEN updateActiveStates /\ UNCHANGED <<container, renders>>
           ELSE /\ IF changeInfo.title \/ changeInfo.favIconUrl
                   THEN renderList(TRUE)
                   ELSE UNCHANGED <<container, renders>>
                /\ UNCHANGED updates
    /\ UNCHANGED <<impl, hostCalls, host, storage, windowTitles, collapsedState,
                   saves, timers, toggled, lastSaved, budget>>

TabsOnUpdated ==
    /\ Dispatched("tabs.onUpdated")
    /\ LET changeInfo == Head(events).changeInfo
       IN  /\ IF changeInfo.active
              THEN updateActiveStates
              ELSE UNCHANGED updates
           /\ IF changeInfo.title \/ changeInfo.favIconUrl
              THEN renderList(TRUE)
              ELSE UNCHANGED <<container, renders>>
    /\ UNCHANGED <<impl, hostCalls, host, storage, windowTitles, collapsedState,
                   saves, timers, toggled, lastSaved, budget>>

----------------------------------------------------------------------------

HostStep ==
    \/ HostFocusChanged
    \/ HostTabCreated
    \/ HostTabRemoved
    \/ HostTabMoved
    \/ HostWindowCreated
    \/ HostWindowRemoved
    \/ HostGroupCreated
    \/ HostGroupRemoved
    \/ HostGroupUpdated
    \/ HostTabUpdated

ListenerStep ==
    \/ TabsOnCreated
    \/ TabsOnRemoved
    \/ TabsOnMoved
    \/ WindowsOnCreated
    \/ WindowsOnRemoved
    \/ TabGroupsOnCreated
    \/ TabGroupsOnRemoved
    \/ TabGroupsOnUpdated
    \/ WindowsOnFocusChanged
    \/ TabsOnUpdated

RenderStep ==
    \/ InitialRenderTimer
    \/ RerenderTimer
    \/ \E r \in 1..Len(renders) : loadWindowTitles(r)
    \/ \E r \in 1..Len(renders) : loadCollapsedState(r)
    \/ \E r \in 1..Len(renders) : GetAllWindows(r)
    \/ \E r \in 1..Len(renders) : QueryTabGroups(r)
    \/ UpdateActiveStatesDone

----------------------------------------------------------------------------
(* Clicks that ask the host for the focus *)

windowsUpdate(windowId, then) ==
    /\ budget > 0
    /\ budget' = budget - 1
    /\ hostCalls' = [hostCalls EXCEPT
                       !.focus = Append(@, FocusRequest(windowId, then))]
    /\ UNCHANGED <<impl, host, storage, windowTitles, collapsedState, container,
                   renders, updates, saves, timers, events, toggled, lastSaved>>

\* A click listener of a tab row that makes both calls at once.
ClickTabCallingBoth(p) ==
    LET row == container[p[1]][p[2]].blocks[p[3]].rows[p[4]]
    IN  /\ budget > 0
        /\ budget' = budget - 1
        /\ hostCalls' = [focus |-> Append(hostCalls.focus,
                                          FocusRequest(row.windowId, <<>>)),
                         activate |-> Append(hostCalls.activate, row.tabId)]
        /\ UNCHANGED <<impl, host, storage, windowTitles, collapsedState,
                       container, renders, updates, saves, timers, events,
                       toggled, lastSaved>>

\* The click listener of the tab row at position p.
ClickTab(p) ==
    LET row == container[p[1]][p[2]].blocks[p[3]].rows[p[4]]
    IN  windowsUpdate(row.windowId, <<row.tabId>>)

\* The click listener of the title area of the window item at position p,
\* the click being outside the editable span.
ClickWindowTitle(p) == windowsUpdate(container[p[1]][p[2]].windowId, <<>>)

\* The click listener of the title area of the group block at position p:
\* the callback activates the first tab of the group.
ClickGroupTitle(p) ==
    LET block == container[p[1]][p[2]].blocks[p[3]]
    IN  /\ block.className = "group-list"
        /\ windowsUpdate(container[p[1]][p[2]].windowId,
                         <<block.rows[1].tabId>>)

\* The host answers the oldest chrome.windows.update: the window, if it is
\* still there, gets the focus, which the host reports when it is a
\* change; the callback, if any, runs and calls chrome.tabs.update.
WindowsUpdateAnswered ==
    /\ hostCalls.focus # <<>>
    /\ LET call == Head(hostCalls.focus)
           focused == [host EXCEPT
                         !.windows = [i \in 1..Len(host.windows) |->
                                        [host.windows[i] EXCEPT
                                           !.focused = (host.windows[i].id = call.windowId)]],
                         !.last = <<call.windowId>>]
       IN  /\ host' = IF call.windowId \in WindowIdsOf(host) THEN focused ELSE host
           /\ events' = IF call.windowId \in WindowIdsOf(host) /\ focused # host
                        THEN Append(events, Event("windows.onFocusChanged"))
                        ELSE events
           /\ hostCalls' = [focus |-> Tail(hostCalls.focus),
                            activate |-> hostCalls.activate \o call.then]
    /\ UNCHANGED <<impl, storage, windowTitles, collapsedState, container,
                   renders, updates, saves, timers, toggled, lastSaved, budget>>

\* The tabs of a window with tab id made its active tab, if it has it.
Activate(win, id) ==
    IF \E j \in 1..Len(win.tabs) : win.tabs[j].id = id
    THEN [win EXCEPT !.tabs = [j \in 1..Len(win.tabs) |->
                                 [win.tabs[j] EXCEPT !.active = (win.tabs[j].id = id)]]]
    ELSE win

\* The host answers the oldest chrome.tabs.update: the tab, if it is still
\* there, becomes the active tab of its window. The panel listens to no
\* event that reports it.
TabsUpdateAnswered ==
    /\ hostCalls.activate # <<>>
    /\ host' = [host EXCEPT
                  !.windows = [i \in 1..Len(host.windows) |->
                                 Activate(host.windows[i], Head(hostCalls.activate))]]
    /\ hostCalls' = [hostCalls EXCEPT !.activate = Tail(@)]
    /\ UNCHANGED <<impl, storage, windowTitles, collapsedState, container,
                   renders, updates, saves, timers, events, toggled, lastSaved,
                   budget>>

ClickStep ==
    \/ \E p \in RowPositions(container) : ClickTab(p)
    \/ \E p \in WindowPositions(container) : ClickWindowTitle(p)
    \/ \E p \in BlockPositions(container) : ClickGroupTitle(p)
    \/ WindowsUpdateAnswered
    \/ TabsUpdateAnswered

UserStep ==
    \/ \E p \in ArrowPositions(container) : ClickArrow(p)
    \/ \E p \in WindowPositions(container), t \in TypedTitles : BlurTitle(p, t)
    \/ SaveWindowTitleDone

Next == HostStep \/ ListenerStep \/ RenderStep \/ UserStep \/ ClickStep

Spec == Init /\ [][Next]_vars

----------------------------------------------------------------------------
(* TreeSpec: one render of a drawn snapshot. The host holds windows 2 and   *)
(* 10 in either order, window 2 with up to MaxTabs tabs whose groupId is    *)
(* none, 5 or 6; group 5, when it exists, is in window 2, and group 6, when *)
(* it exists, is in window 10. Storage holds drawn custom titles. The host  *)
(* stays as drawn and the user does nothing.                                *)

TreeGroupIds == {NoGroup, 5, 6}
TreeTabs ==
    UNION {[1..n -> TreeGroupIds] : n \in 1..MaxTabs}
TreeGroups ==
    {<<>>, <<Group(5, 2, "Work")>>, <<Group(6, 10, "")>>,
     <<Group(6, 10, ""), Group(5, 2, "Work")>>}
TreeTitles ==
    {m \in [{TitleKey(2), TitleKey(10)} -> {<<"-">>, <<>>, <<"b">>, <<"B">>}] :
        m[TitleKey(10)] \in {<<"-">>, <<"b">>}}
\* The stored object: the keys drawn as <<"-">> are absent.
StoredTitles(m) ==
    [k \in {x \in DOMAIN m : m[x] # <<"-">>} |-> m[k]]

TreeHost(gids, groups, swapped, focus) ==
    LET w2 == Window(2, focus = <<2>>,
                     [i \in 1..Len(gids) |-> Tab(i, gids[i], i = 1)])
        w10 == Window(10, focus = <<10>>, <<Tab(21, NoGroup, TRUE)>>)
    IN  [windows |-> IF swapped THEN <<w10, w2>> ELSE <<w2, w10>>,
         groups |-> groups,
         last |-> IF focus = <<>> THEN <<2>> ELSE focus]

TreeInit ==
    /\ impl \in {"background.js", "part_001"}
    /\ \E gids \in TreeTabs, groups \in TreeGroups, swapped \in BOOLEAN,
          focus \in {<<>>, <<2>>, <<10>>} :
          host = TreeHost(gids, groups, swapped, focus)
    /\ \E m \in TreeTitles :
          storage = IF StoredTitles(m) = EmptyMap THEN EmptyMap
                    ELSE Put(EmptyMap, "customWindowTitles", StoredTitles(m))
    /\ windowTitles = EmptyMap
    /\ collapsedState = EmptyMap
    /\ container = <<>>
    /\ renders = <<>>
    /\ updates = 0
    /\ saves = 0
    /\ timers = [initial |-> 1, rerender |-> 0]
    /\ events = <<>>
    /\ hostCalls = NoCalls
    /\ toggled = EmptyMap
    /\ lastSaved = <<>>
    /\ budget = 0

TreeNext ==
    \/ InitialRenderTimer
    \/ \E r \in 1..Len(renders) : loadWindowTitles(r)
    \/ \E r \in 1..Len(renders) : loadCollapsedState(r)
    \/ \E r \in 1..Len(renders) : GetAllWindows(r)
    \/ \E r \in 1..Len(renders) : QueryTabGroups(r)
    \/ UpdateActiveStatesDone

TreeSpec == TreeInit /\ [][TreeNext]_vars

----------------------------------------------------------------------------
(* StoreSpec: the panel with its renders, title edits and arrow clicks, the *)
(* only host change being the update of a tab group, which starts a render  *)
(* and leaves the windows and tabs as they are.                             *)

StoreInit ==
    /\ impl = "background.js"
    /\ host = InitialHost
    /\ storage = EmptyMap
    /\ windowTitles = EmptyMap
    /\ collapsedState = EmptyMap
    /\ container = <<>>
    /\ renders = <<>>
    /\ updates = 0
    /\ saves = 0
    /\ timers = [initial |-> 1, rerender |-> 0]
    /\ events = <<>>
    /\ hostCalls = NoCalls
    /\ toggled = EmptyMap
    /\ lastSaved = <<>>
    /\ budget = MaxStoreInputs

StoreNext ==
    \/ HostGroupUpdated
    \/ TabGroupsOnUpdated
    \/ RenderStep
    \/ UserStep

StoreSpec == StoreInit /\ [][StoreNext]_vars

----------------------------------------------------------------------------
(* Properties of a completed render. In TreeSpec the host and the stored    *)
(* titles stay as drawn, so the snapshot a render used is host and the      *)
(* title map it used is windowTitles.                                       *)

\* A render has completed and its list is in the container.
Mounted == container # <<>>

HostWindow(id) ==
    host.windows[CHOOSE i \in 1..Len(host.windows) : host.windows[i].id = id]
HostIndex(id) == CHOOSE i \in 1..Len(host.windows) : host.windows[i].id = id

\* The tab's groupId names a group that exists and belongs to the window.
ValidGroup(tab, win) ==
    /\ tab.groupId > NoGroup
    /\ \E g \in 1..Len(host.groups) :
          host.groups[g].id = tab.groupId /\ host.groups[g].windowId = win.id
\* The tab's groupId names no group, or a group of another window.
DanglingGroup(tab, win) == tab.groupId > NoGroup /\ ~ValidGroup(tab, win)

\* The rows of tab id in the ungrouped lists of a window item.
UngroupedRows(item, id) ==
    {<<b, r>> \in (1..Len(item.blocks)) \X (1..MaxTabs + 1) :
        /\ item.blocks[b].className = "tab-list-no-group"
        /\ r <= Len(item.blocks[b].rows)
        /\ item.blocks[b].rows[r].tabId = id}

\* C1: every tab whose groupId names no existing group, or a group of
\* another window, has exactly one ungrouped row in its window's content
\* after a completed render.
DanglingTabsKeptAsUngroupedRows ==
    Mounted =>
      \A l \in 1..Len(container) : \A w \in 1..Len(container[l]) :
         LET item == container[l][w]
             win == HostWindow(item.windowId)
         IN  \A t \in 1..Len(win.tabs) :
                DanglingGroup(win.tabs[t], win)
                  => Cardinality(UngroupedRows(item, win.tabs[t].id)) = 1

\* What a block shows from top to bottom: an ungrouped list its rows, each
\* a row of its own, a group list the group with the tab ids of its rows.
Row(id) == [className |-> "tab-list-no-group", groupId |-> NoGroup,
            tabIds |-> <<id>>]
BlockShape(block) ==
    IF block.className = "group-list"
    THEN <<[className |-> block.className, groupId |-> block.groupId,
            tabIds |-> [r \in 1..Len(block.rows) |-> block.rows[r].tabId]]>>
    ELSE [r \in 1..Len(block.rows) |-> Row(block.rows[r].tabId)]
RECURSIVE Shown(_, _)
Shown(blocks, b) ==
    IF b > Len(blocks) THEN <<>>
    ELSE BlockShape(blocks[b]) \o Shown(blocks, b + 1)

\* The blocks in first-encounter order of a window whose tabs are ungrouped
\* or in a valid group: a row of its own for an ungrouped tab, and for a
\* group one block, at its first tab, holding its tabs in host order.
RECURSIVE FirstEncounterOrder(_, _, _)
FirstEncounterOrder(win, i, seen) ==
    IF i > Len(win.tabs) THEN <<>>
    ELSE LET tab == win.tabs[i]
         IN  IF tab.groupId = NoGroup
             THEN <<Row(tab.id)>> \o FirstEncounterOrder(win, i + 1, seen)
             ELSE IF tab.groupId \in seen
             THEN FirstEncounterOrder(win, i + 1, seen)
             ELSE <<[className |-> "group-list", groupId |-> tab.groupId,
                     tabIds |-> LET ts == SelectSeq(win.tabs,
                                            LAMBDA t : t.groupId = tab.groupId)
                                IN  [k \in 1..Len(ts) |-> ts[k].id]]>>
                  \o FirstEncounterOrder(win, i + 1, seen \cup {tab.groupId})

NoDanglingGroup(win) ==
    \A t \in 1..Len(win.tabs) : ~DanglingGroup(win.tabs[t], win)

BlocksAsEncountered(item) ==
    LET win == HostWindow(item.windowId)
    IN  NoDanglingGroup(win)
          => Shown(item.blocks, 1) = FirstEncounterOrder(win, 1, {})

\* C3: the blocks of a window's content are in first-encounter order of the
\* window's tabs: an ungrouped tab is a row at its own position, a group's
\* block sits at the position of the group's first tab.
BlocksInFirstEncounterOrder ==
    Mounted =>
      \A l \in 1..Len(container) : \A w \in 1..Len(container[l]) :
         BlocksAsEncountered(container[l][w])

\* The same for the renderList of background.js alone, which it satisfies.
BlocksInFirstEncounterOrderInBackgroundJs ==
    impl = "background.js" => BlocksInFirstEncounterOrder

\* C4: in the rendered window order a focused window is before every window
\* that is not focused, whatever the titles.
FocusedWindowFirst ==
    Mounted =>
      \A l \in 1..Len(container) :
         \A i \in 1..Len(container[l]) : \A j \in 1..Len(container[l]) :
            (/\ HostWindow(container[l][i].windowId).focused
             /\ ~HostWindow(container[l][j].windowId).focused) => i < j

\* C4 witness: the focused window is last in host order and its title sorts
\* after the other's, and it is the first row.
FocusedWindowMovedFirst ==
    /\ Mounted
    /\ Len(host.windows) = 2
    /\ host.windows[2].focused
    /\ LocaleCompare(EffectiveTitle(windowTitles, host.windows[1].id),
                     EffectiveTitle(windowTitles, host.windows[2].id)) < 0
    /\ container[1][1].windowId = host.windows[2].id

\* The title the sort uses according to C5 as written: the stored custom
\* title whenever the map has an entry, else the default.
StoredOrDefault(id) ==
    IF Has(windowTitles, TitleKey(id)) THEN windowTitles[TitleKey(id)]
    ELSE DefaultTitle(id)
\* The same with an empty stored title counted as no title.
NonEmptyOrDefault(id) ==
    IF Has(windowTitles, TitleKey(id)) /\ windowTitles[TitleKey(id)] # <<>>
    THEN windowTitles[TitleKey(id)]
    ELSE DefaultTitle(id)

\* The rows of windows without focus are ordered by the comparison of
\* Title; rows that compare equal keep their host order.
UnfocusedOrderedBy(Title(_)) ==
    \A l \in 1..Len(container) :
       \A i \in 1..Len(container[l]) : \A j \in 1..Len(container[l]) :
          LET a == container[l][i].windowId
              b == container[l][j].windowId
          IN  (i < j /\ ~HostWindow(a).focused /\ ~HostWindow(b).focused)
                => \/ LocaleCompare(Title(a), Title(b)) < 0
                   \/ /\ LocaleCompare(Title(a), Title(b)) = 0
                      /\ HostIndex(a) < HostIndex(b)

\* C5 as written: the windows without focus are in the numeric-aware,
\* case-insensitive order of their effective titles, the effective title
\* being the stored custom title if one is set and "Window w" otherwise.
UnfocusedSortedByStoredTitle ==
    Mounted => UnfocusedOrderedBy(StoredOrDefault)

\* C5 amended: the same, the effective title being the stored custom title
\* if one is set and not empty, and "Window w" otherwise; "Window 2" is
\* before "Window 10"; the order is fixed by the snapshot and the title map.
UnfocusedSortedByEffectiveTitle ==
    /\ LocaleCompare(DefaultTitle(2), DefaultTitle(10)) < 0
    /\ LocaleCompare(<<"b">>, <<"B">>) = 0
    /\ Mounted => UnfocusedOrderedBy(NonEmptyOrDefault)

\* C5 witness: no window has the focus, window 10 is first in host order
\* and both windows show their default titles: window 2 is the first row.
DefaultTitlesSortedNumerically ==
    /\ Mounted
    /\ \A i \in 1..Len(host.windows) : ~host.windows[i].focused
    /\ host.windows[1].id = 10
    /\ windowTitles = EmptyMap
    /\ container[1][1].windowId = 2
    /\ container[1][2].windowId = 10

\* C7 as written: a window whose stored title is the empty string shows an
\* empty title; the default shows only for an id with no entry in the map.
EmptyStoredTitleShownEmpty ==
    Mounted =>
      \A l \in 1..Len(container) : \A w \in 1..Len(container[l]) :
         container[l][w].title = StoredOrDefault(container[l][w].windowId)

\* C7 amended: a window shows its stored title when that title is not
\* empty; with an empty stored title, as with no entry, it shows the
\* default "Window {id}".
EmptyStoredTitleShownAsDefault ==
    Mounted =>
      \A l \in 1..Len(container) : \A w \in 1..Len(container[l]) :
         LET id == container[l][w].windowId
             key == TitleKey(id)
         IN  /\ (Has(windowTitles, key) /\ windowTitles[key] # <<>>)
                  => container[l][w].title = windowTitles[key]
             /\ (Has(windowTitles, key) /\ windowTitles[key] = <<>>)
                  => container[l][w].title = DefaultTitle(id)
             /\ ~Has(windowTitles, key)
                  => container[l][w].title = DefaultTitle(id)

\* C7 witness: a rendered window whose stored title is the empty string.
EmptyStoredTitleRendered ==
    /\ Mounted
    /\ \E w \in 1..Len(container[1]) :
          LET key == TitleKey(container[1][w].windowId)
          IN  /\ Has(windowTitles, key)
              /\ windowTitles[key] = <<>>
              /\ container[1][w].title = DefaultTitle(container[1][w].windowId)

----------------------------------------------------------------------------
(* Properties of the running panel (Spec) *)

WindowIdsShown(c) == {c[p[1]][p[2]].windowId : p \in WindowPositions(c)}

\* C2: once every renderList call has completed the container holds one
\* window list, and each window id is in exactly one window row.
OneWindowListAfterOverlappingRenders ==
    (renders = <<>> /\ container # <<>>)
      => /\ Len(container) = 1
         /\ \A p \in WindowPositions(container) :
               \A q \in WindowPositions(container) :
                  container[p[1]][p[2]].windowId = container[q[1]][q[2]].windowId
                    => p = q

\* The step is the delivery of the stored titles to render r.
TitlesDelivered(r) ==
    /\ r \in 1..Len(renders)
    /\ "windowTitles" \in renders[r].loads
    /\ Len(renders') = Len(renders)
    /\ renders'[r].loads = renders[r].loads \ {"windowTitles"}

\* C6: when loadWindowTitles of a render that started after
\* saveWindowTitle(w, trim(s)) gets its answer, windowTitles[w] is exactly
\* trim(s), the empty string included, and every other id has the title
\* that save stored for it, or none if it stored none.
SavedTitleLoadedBack ==
    [][\A r \in 1..Len(renders) :
          (TitlesDelivered(r) /\ renders[r].after # <<>>)
            => LET saved == renders[r].after[1]
                   key == TitleKey(saved.windowId)
               IN  /\ Has(windowTitles', key)
                   /\ windowTitles'[key] = saved.title
                   /\ saved.title \in {Trim(s) : s \in TypedTitles}
                   /\ DOMAIN windowTitles' = DOMAIN saved.stored
                   /\ \A k \in DOMAIN windowTitles' \ {key} :
                         windowTitles'[k] = saved.stored[k]]_vars

\* C6 witness: a render that started after the title of a window was saved
\* as the empty string, another window having a stored title, has loaded
\* the titles: both entries are in the map, the saved one empty.
EmptyTitleLoadedBack ==
    \E r \in 1..Len(renders) :
       /\ renders[r].after # <<>>
       /\ "windowTitles" \notin renders[r].loads
       /\ renders[r].after[1].title = <<>>
       /\ Cardinality(DOMAIN windowTitles) = 2
       /\ windowTitles[TitleKey(renders[r].after[1].windowId)] = <<>>
       /\ \E k \in DOMAIN windowTitles : windowTitles[k] = <<"b">>

ActiveWindowRows(c) == {p \in WindowPositions(c) : c[p[1]][p[2]].activeWindow}
ActiveTabRows(c) ==
    {p \in RowPositions(c) : c[p[1]][p[2]].blocks[p[3]].rows[p[4]].activeTab}

\* C8: updateActiveStates run twice on the same tree with the same host
\* focus state leaves the markers that one run leaves, and these are at
\* most one active-window row and at most one active-tab row.
UpdateActiveStatesIdempotent ==
    LET current == getLastFocused(host)
        once == ApplyActiveStates(container, current)
        twice == ApplyActiveStates(once, current)
    IN  /\ twice = once
        /\ Cardinality(ActiveWindowRows(once)) <= 1
        /\ Cardinality(ActiveTabRows(once)) <= 1

\* C8 witness: the tree carries the markers of a window that is no longer
\* the last focused one, both windows have a row, and a run of
\* updateActiveStates is about to complete.
MarkersOfPreviousFocus ==
    /\ updates > 0
    /\ Len(container) = 1
    /\ host.last # <<>>
    /\ \E p \in ActiveWindowRows(container) :
          <<container[p[1]][p[2]].windowId>> # host.last
    /\ ActiveTabRows(container) # {}
    /\ host.last[1] \in WindowIdsShown(container)

StructuralEvents ==
    {"tabs.onCreated", "tabs.onRemoved", "tabs.onMoved", "windows.onCreated",
     "windows.onRemoved", "tabGroups.onCreated", "tabGroups.onRemoved",
     "tabGroups.onUpdated"}

\* C10: the dispatch of a structural event starts one renderList(true) and
\* nothing else; the dispatch of a focus change starts one
\* updateActiveStates, starts no renderList, writes nothing to storage and
\* leaves the tree alone.
DispatchTable ==
    [][(events # <<>> /\ events' = Tail(events))
         => LET type == Head(events).type
            IN  /\ type \in StructuralEvents
                  => /\ Len(renders') = Len(renders) + 1
                     /\ SubSeq(renders', 1, Len(renders)) = renders
                     /\ renders'[Len(renders')].shouldRestoreScroll
                     /\ renders'[Len(renders')].loads
                          = {"windowTitles", "collapsedState"}
                     /\ updates' = updates
                     /\ storage' = storage
                /\ type = "windows.onFocusChanged"
                  => /\ updates' = updates + 1
                     /\ renders' = renders
                     /\ container' = container
                     /\ storage' = storage
                     /\ windowTitles' = windowTitles
                     /\ collapsedState' = collapsedState]_vars

\* C10 witness: the only thing that has happened besides the first render
\* is the creation of a tab, its event has been dispatched, and a
\* renderList(true) is in flight.
RenderStartedByTabCreation ==
    /\ budget = MaxInputs - 1
    /\ events = <<>>
    /\ timers.initial = 0
    /\ Len(host.windows[1].tabs) = Len(InitialHost.windows[1].tabs) + 1
    /\ \E r \in 1..Len(renders) : renders[r].shouldRestoreScroll

\* The step is a click on the arrow at p, whose region with key K shows
\* expanded.
ExpandedArrowClicked(p) ==
    /\ p \in ArrowPositions(container)
    /\ ArrowExpanded(container, p)
    /\ ~RegionCollapsed(container, p)
    /\ ClickArrow(p)

\* After the click the content built with the arrow is hidden and the
\* stored collapse map has K -> true.
CollapsedByClick ==
    \A p \in ArrowPositions(container) :
       ExpandedArrowClicked(p)
         => /\ RegionCollapsed(container', p)
            /\ ~ArrowExpanded(container', p)
            /\ Has(storage', "collapsedState")
            /\ Has(storage'["collapsedState"], ArrowKey(container, p))
            /\ storage'["collapsedState"][ArrowKey(container, p)]

\* The step mounts the list of render r.
ListMounted(r) ==
    /\ r \in 1..Len(renders)
    /\ renders[r].loads = {}
    /\ Cardinality(renders[r].fetches) = 1
    /\ renders' = Remove(renders, r)
    /\ Len(container') = Len(container) + 1

\* The list a render mounts shows every region as its arrow was last left
\* before the render started, if it has not been clicked since, and a
\* region whose arrow was never clicked expanded.
BuiltAsLastLeft ==
    \A r \in 1..Len(renders) :
       ListMounted(r)
         => LET built == <<container'[Len(container')]>>
            IN  \A p \in ArrowPositions(built) :
                   LET key == ArrowKey(built, p)
                   IN  /\ (/\ Has(renders[r].expect, key)
                           /\ toggled[key] = renders[r].expect[key])
                         => /\ RegionCollapsed(built, p) = toggled[key]
                            /\ ArrowExpanded(built, p) = ~toggled[key]
                       /\ ~Has(toggled, key)
                         => /\ ~RegionCollapsed(built, p)
                            /\ ArrowExpanded(built, p)

\* C9: a click on the arrow of an expanded region with key K hides the
\* region's content and stores K -> true, every render started after the
\* click builds region K collapsed, with an arrow that is not expanded, and
\* a key absent from the map is built expanded.
CollapseClickedAndKept == [][CollapsedByClick /\ BuiltAsLastLeft]_vars

\* The step dispatches the event at the head of the queue, of this type.
DispatchOf(type) ==
    /\ events # <<>>
    /\ Head(events).type = type
    /\ events' = Tail(events)

\* The step starts exactly one renderList(true).
OneRenderListStarted ==
    /\ Len(renders') = Len(renders) + 1
    /\ SubSeq(renders', 1, Len(renders)) = renders
    /\ renders'[Len(renders')].shouldRestoreScroll
    /\ renders'[Len(renders')].loads = {"windowTitles", "collapsedState"}

WithoutMarkers(c) ==
    [l \in 1..Len(c) |->
       [w \in 1..Len(c[l]) |->
          [windowId |-> c[l][w].windowId,
           title |-> c[l][w].title,
           collapsed |-> c[l][w].collapsed,
           expanded |-> c[l][w].expanded,
           blocks |->
             [b \in 1..Len(c[l][w].blocks) |->
                [className |-> c[l][w].blocks[b].className,
                 groupId |-> c[l][w].blocks[b].groupId,
                 title |-> c[l][w].blocks[b].title,
                 collapsed |-> c[l][w].blocks[b].collapsed,
                 expanded |-> c[l][w].blocks[b].expanded,
                 rows |-> [r \in 1..Len(c[l][w].blocks[b].rows) |->
                             [tabId |-> c[l][w].blocks[b].rows[r].tabId,
                              windowId |-> c[l][w].blocks[b].rows[r].windowId]]]]]]]

\* C12: the step that completes an updateActiveStates changes nothing in
\* the tree but markers: the rows, their titles and the collapsed and
\* expanded classes stay, as do both in-memory maps and storage, and no
\* renderList is started or scheduled.
UpdateActiveStatesOnlyMarks ==
    [][updates' = updates - 1
         => /\ WithoutMarkers(container') = WithoutMarkers(container)
            /\ windowTitles' = windowTitles
            /\ collapsedState' = collapsedState
            /\ storage' = storage
            /\ renders' = renders
            /\ timers' = timers
            /\ saves' = saves]_vars

\* C12 witness: everything has completed, a region is collapsed and the
\* marker is on a window that got the focus after the start.
MarkerMovedBesideCollapsedRegion ==
    /\ updates = 0 /\ renders = <<>> /\ events = <<>>
    /\ Len(container) = 1
    /\ \E q \in ArrowPositions(container) : RegionCollapsed(container, q)
    /\ host.last # InitialHost.last
    /\ \E p \in ActiveWindowRows(container) :
          <<container[p[1]][p[2]].windowId>> = host.last

\* The step is a call of saveWindowTitle up to its await.
SaveCalled == saves' = saves + 1
\* The step is the completion of the write of a saveWindowTitle.
SaveWriteCompleted == saves' = saves - 1

\* C13: a call of saveWindowTitle(w, t) puts w -> t in the in-memory map
\* and writes that whole map under the titles key, scheduling nothing; the
\* completion of the write schedules one renderList(true); a re-render is
\* scheduled by nothing else, so by no write that has not completed, and a
\* scheduled re-render starts one renderList(true).
SaveThenWriteThenRerender ==
    [][/\ SaveCalled
         => /\ lastSaved' # <<>>
            /\ windowTitles' = Put(windowTitles, TitleKey(lastSaved'[1].windowId),
                                   lastSaved'[1].title)
            /\ Has(storage', "customWindowTitles")
            /\ storage'["customWindowTitles"] = windowTitles'
            /\ timers' = timers
            /\ renders' = renders
       /\ SaveWriteCompleted
         => /\ timers'.rerender = timers.rerender + 1
            /\ renders' = renders
            /\ storage' = storage
       /\ timers'.rerender > timers.rerender => SaveWriteCompleted
       /\ timers'.rerender < timers.rerender
         => /\ timers'.rerender = timers.rerender - 1
            /\ OneRenderListStarted]_vars

\* C13 witness: a title has been saved, its write has completed and its
\* one re-render is scheduled and not yet started; storage holds the map.
RerenderScheduledAfterWrite ==
    /\ lastSaved # <<>>
    /\ saves = 0
    /\ timers.rerender = 1
    /\ renders = <<>>
    /\ Has(storage, "customWindowTitles")
    /\ storage["customWindowTitles"] = windowTitles
    /\ windowTitles[TitleKey(lastSaved[1].windowId)] = lastSaved[1].title

\* The rows of tab id anywhere in a window item, as <<block, row>>.
RowsOf(item, id) ==
    {<<b, r>> \in (1..Len(item.blocks)) \X (1..MaxTabs + 1) :
        /\ r <= Len(item.blocks[b].rows)
        /\ item.blocks[b].rows[r].tabId = id}
\* The blocks of group g in a window item.
BlocksOfGroup(item, g) ==
    {b \in 1..Len(item.blocks) :
        item.blocks[b].className = "group-list" /\ item.blocks[b].groupId = g}

\* C14: after a completed render every tab whose groupId names a group of
\* its own window has exactly one row, in that group's block; the group has
\* one block, whose rows are the group's tabs in host order; and no tab has
\* two rows.
GroupedTabsOnceInTheirBlock ==
    Mounted =>
      \A l \in 1..Len(container) : \A w \in 1..Len(container[l]) :
         LET item == container[l][w]
             win == HostWindow(item.windowId)
         IN  \A t \in 1..Len(win.tabs) :
                LET tab == win.tabs[t]
                    inGroup == SelectSeq(win.tabs,
                                         LAMBDA x : x.groupId = tab.groupId)
                IN  /\ Cardinality(RowsOf(item, tab.id)) <= 1
                    /\ ValidGroup(tab, win)
                         => /\ Cardinality(RowsOf(item, tab.id)) = 1
                            /\ Cardinality(BlocksOfGroup(item, tab.groupId)) = 1
                            /\ \A b \in BlocksOfGroup(item, tab.groupId) :
                                  [r \in 1..Len(item.blocks[b].rows) |->
                                     item.blocks[b].rows[r].tabId]
                                  = [k \in 1..Len(inGroup) |-> inGroup[k].id]

\* C14 witness: a rendered window whose first and third tab are in a group
\* of the window and whose second tab is not: the group's block has the
\* rows of the first and the third tab.
SplitGroupInOneBlock ==
    /\ Mounted
    /\ \E w \in 1..Len(container[1]) :
          LET item == container[1][w]
              win == HostWindow(item.windowId)
          IN  /\ Len(win.tabs) = 3
              /\ ValidGroup(win.tabs[1], win)
              /\ win.tabs[3].groupId = win.tabs[1].groupId
              /\ win.tabs[2].groupId = NoGroup
              /\ \E b \in BlocksOfGroup(item, win.tabs[1].groupId) :
                    /\ Len(item.blocks[b].rows) = 2
                    /\ item.blocks[b].rows[1].tabId = win.tabs[1].id
                    /\ item.blocks[b].rows[2].tabId = win.tabs[3].id

\* The step delivers a storage answer to render r, which stays in flight.
LoadCompleted(r) ==
    /\ Len(renders') = Len(renders)
    /\ renders'[r].loads # renders[r].loads
\* The step delivers a host answer to render r, which stays in flight.
FetchCompleted(r) ==
    /\ Len(renders') = Len(renders)
    /\ renders'[r].fetches # renders[r].fetches
\* The step appends a window list to the container.
ListAppended == Len(container') = Len(container) + 1

\* C15: in a render pass a storage answer is delivered only while no host
\* answer has been; a host answer is delivered only when both storage
\* answers have been; a list is appended only by a render that has both
\* storage answers and gets its second host answer, it is the list built
\* from the two host answers, and the same step starts updateActiveStates,
\* with or without scroll restoration.
RenderPassOrder ==
    [][/\ \A r \in 1..Len(renders) :
            /\ LoadCompleted(r)
                 => /\ renders[r].fetches = {"windows", "tabGroups"}
                    /\ renders'[r].fetches = renders[r].fetches
                    /\ container' = container
            /\ FetchCompleted(r)
                 => /\ renders[r].loads = {}
                    /\ container' = container
       /\ ListAppended
            => /\ updates' = updates + 1
               /\ \E r \in 1..Len(renders) :
                     /\ renders' = Remove(renders, r)
                     /\ renders[r].loads = {}
                     /\ Cardinality(renders[r].fetches) = 1
                     /\ LET windows == IF "windows" \in renders[r].fetches
                                       THEN host.windows ELSE renders[r].windows
                        IN  {container'[Len(container')][w].windowId :
                                w \in 1..Len(container'[Len(container')])}
                            = {windows[i].id : i \in 1..Len(windows)}]_vars

\* C15 witness: one render has mounted its list and started its
\* updateActiveStates while another, with both storage answers, has the
\* answer of tabGroups.query and still waits for that of windows.getAll.
MountedWhileOtherAwaitsWindows ==
    /\ Len(container) = 1
    /\ updates = 1
    /\ \E r \in 1..Len(renders) :
          /\ renders[r].loads = {}
          /\ renders[r].fetches = {"windows"}

\* The step makes a chrome.windows.update call whose callback activates a
\* tab.
FocusThenActivateCalled ==
    /\ Len(hostCalls'.focus) = Len(hostCalls.focus) + 1
    /\ hostCalls'.focus[Len(hostCalls'.focus)].then # <<>>

\* C16: a click on a tab row calls chrome.windows.update for the row's
\* window and nothing else; chrome.tabs.update for a tab is called only in
\* the step in which the oldest focus request is answered and its callback
\* runs, for the tab of that request.
ActivateOnlyInFocusCallback ==
    [][/\ FocusThenActivateCalled
         => /\ hostCalls'.activate = hostCalls.activate
            /\ host' = host
            /\ SubSeq(hostCalls'.focus, 1, Len(hostCalls.focus)) = hostCalls.focus
            /\ LET call == hostCalls'.focus[Len(hostCalls'.focus)]
               IN  \E q \in RowPositions(container) :
                      LET row == container[q[1]][q[2]].blocks[q[3]].rows[q[4]]
                      IN  row.tabId = call.then[1] /\ row.windowId = call.windowId
       /\ Len(hostCalls'.activate) > Len(hostCalls.activate)
         => /\ hostCalls.focus # <<>>
            /\ hostCalls'.focus = Tail(hostCalls.focus)
            /\ hostCalls'.activate
                 = hostCalls.activate \o Head(hostCalls.focus).then]_vars

\* C16 witness: one click on the row of a tab of a window that did not have
\* the focus: the window has got the focus, the callback has run, and the
\* activate request for the tab is the only call awaiting its answer.
ActivateCalledAfterFocus ==
    /\ budget = MaxInputs - 1
    /\ hostCalls.focus = <<>>
    /\ Len(hostCalls.activate) = 1
    /\ host.last # InitialHost.last
    /\ \E i \in 1..Len(host.windows) :
          /\ <<host.windows[i].id>> = host.last
          /\ host.windows[i].focused
          /\ \E j \in 1..Len(host.windows[i].tabs) :
                host.windows[i].tabs[j].id = hostCalls.activate[1]

\* C17: in every reachable state every collapse arrow of the mounted tree
\* agrees with the content region built together with it: the arrow has
\* the class expanded exactly when the region lacks the class collapsed.
ArrowsAgreeWithOwnRegions ==
    \A p \in ArrowPositions(container) :
       ArrowExpanded(container, p) = ~RegionCollapsed(container, p)

\* The same while the container holds at most one window list.
ArrowsAgreeInSingleList ==
    Len(container) <= 1 => ArrowsAgreeWithOwnRegions

\* Nothing is in flight, scheduled or pending.
Quiet ==
    /\ renders = <<>> /\ updates = 0 /\ saves = 0 /\ events = <<>>
    /\ timers.initial = 0 /\ timers.rerender = 0
    /\ hostCalls = NoCalls

StoredUnder(key) == IF Has(storage, key) THEN storage[key] ELSE EmptyMap

\* C18: once every operation has completed, the stored title map has, for
\* every window that was given a title, the title last saved for it, and
\* the stored collapse map has, for every key that was toggled, the flag
\* last saved for it.
NoSavedStateLost ==
    Quiet =>
      /\ lastSaved # <<>>
           => \A k \in DOMAIN lastSaved[1].titles :
                 /\ Has(StoredUnder("customWindowTitles"), k)
                 /\ StoredUnder("customWindowTitles")[k] = lastSaved[1].titles[k]
      /\ \A k \in DOMAIN toggled :
            /\ Has(StoredUnder("collapsedState"), k)
            /\ StoredUnder("collapsedState")[k] = toggled[k]

\* The ids of the active tabs of the host's last-focused window.
ActiveTabOfLastFocused ==
    UNION {{host.windows[i].tabs[j].id :
              j \in {k \in 1..Len(host.windows[i].tabs) :
                       host.windows[i].tabs[k].active}} :
           i \in {k \in 1..Len(host.windows) : <<host.windows[k].id>> = host.last}}
TabIdsShown(c) ==
    {c[p[1]][p[2]].blocks[p[3]].rows[p[4]].tabId : p \in RowPositions(c)}

\* C19: once no event is pending and nothing is in flight, the rows marked
\* active-window are rows of the host's last-focused window, one of them
\* is marked if the window has a row, the rows marked active-tab are rows
\* of that window's active tab, and one of them is marked if the tab has a
\* row.
MarkersFollowHostFocus ==
    (Quiet /\ container # <<>>) =>
      /\ \A p \in ActiveWindowRows(container) :
            <<container[p[1]][p[2]].windowId>> = host.last
      /\ (host.last # <<>> /\ host.last[1] \in WindowIdsShown(container))
            => ActiveWindowRows(container) # {}
      /\ \A p \in ActiveTabRows(container) :
            container[p[1]][p[2]].blocks[p[3]].rows[p[4]].tabId
              \in ActiveTabOfLastFocused
      /\ (ActiveTabOfLastFocused \cap TabIdsShown(container) # {})
            => ActiveTabRows(container) # {}

ActiveTabIds(h) ==
    UNION {{h.windows[i].tabs[j].id :
              j \in {k \in 1..Len(h.windows[i].tabs) : h.windows[i].tabs[k].active}} :
           i \in 1..Len(h.windows)}

\* The same in the states in which the active tabs are those of the start:
\* the markers follow the focus of the windows.
MarkersFollowHostFocusOfWindows ==
    ActiveTabIds(host) = ActiveTabIds(InitialHost) => MarkersFollowHostFocus

====
